---- MODULE Spec2Model ----
(***************************************************************************)
(* Model of missile-launcher.c: one invocation of the command-line tool.   *)
(* The program is single threaded; every step of the model is one call the *)
(* program makes to an external collaborator (argp, hidapi, usleep) plus   *)
(* the straight-line code around it.  The collaborators' answers (the      *)
(* return value of hid_open, hid_write, hid_read; the byte delivered; the  *)
(* oversleep of usleep) are chosen nondeterministically.  `log` is the     *)
(* trace a mock transport would record.                                    *)
(***************************************************************************)
EXTENDS Integers, Sequences, FiniteSets, TLC

VARIABLES
    argc,        \* number of command-line words after the program name
    argv,        \* the words argp_parse has not handed to parse_opt yet
    arguments,   \* struct arguments (main, line 377)
    pc,          \* position of the single thread of control
    ret,         \* main's ret (line 376)
    device,      \* the hid_device handle: "unopened", "NULL", "open", "closed"
    fn_ret,      \* the local ret of the running move_turret/fire_missile/print_status
    gs_ret,      \* the local ret of get_status
    status,      \* the local uint8_t status of fire_missile / print_status
    polls,       \* iterations of fire_missile's do-while started so far
    clock,       \* simulated time, microseconds
    log,         \* calls made to hidapi and usleep, in order
    calls,       \* the functions main has called, in order
    rets,        \* their return values, in order of return
    printed,     \* what print_status printed
    exit_code    \* the process's exit status, -1 while it runs

vars == <<argc, argv, arguments, pc, ret, device, fn_ret, gs_ret, status,
          polls, clock, log, calls, rets, printed, exit_code>>

-----------------------------------------------------------------------------
(* Bounds of the model *)

MaxArgs == 4      \* command-line words per invocation
MaxPolls == 3     \* iterations of the polling loop that are explored
MaxJitter == 1    \* microseconds usleep may oversleep

-----------------------------------------------------------------------------
(* Program constants *)

CMD_MOVE_DOWN == 1
CMD_MOVE_UP == 2
CMD_MOVE_LEFT == 4
CMD_MOVE_RIGHT == 8
CMD_FIRE == 16
CMD_STOP == 32
CMD_GET_STATUS == 64

STATUS_DOWN_LIMIT == 1
STATUS_UP_LIMIT == 2
STATUS_LEFT_LIMIT == 4
STATUS_RIGHT_LIMIT == 8
STATUS_DEVICE_FIRED == 16

MOVE_HOLD_TIME_US == 100000
FIRE_HOLD_TIME_US == 500000

EXIT_SUCCESS == 0
EXIT_FAILURE == 1
EX_USAGE == 64        \* argp_usage exits with argp_err_exit_status

MOVEMENT_NONE == 0
MOVEMENT_TILT_UP == 1
MOVEMENT_TILT_DOWN == 2
MOVEMENT_PAN_LEFT == 3
MOVEMENT_PAN_RIGHT == 4

-----------------------------------------------------------------------------
(* Bit operations on bytes *)

RECURSIVE BitAnd(_, _)
BitAnd(a, b) ==
    IF a = 0 \/ b = 0 THEN 0
    ELSE (a % 2) * (b % 2) + 2 * BitAnd(a \div 2, b \div 2)

-----------------------------------------------------------------------------
(* The environment: what the collaborators may answer *)

\* hid_write returns the number of bytes written or -1
HidWriteResults == {-1, 2}
\* hid_read returns the number of bytes read (0 when no report was delivered) or -1
HidReadResults == {-1, 0, 1}
\* the status bytes a read may deliver, and the values an uninitialised
\* uint8_t may hold
StatusBytes == {5, 16, 21}
Jitter == 0..MaxJitter

-----------------------------------------------------------------------------
(* Command-line words.  A string is a sequence of one-character strings.   *)

Str_up == <<"u", "p">>
Str_down == <<"d", "o", "w", "n">>
Str_left == <<"l", "e", "f", "t">>
Str_right == <<"r", "i", "g", "h", "t">>
Str_bogus == <<"u", "p", "p">>

MoveArgs == {Str_up, Str_down, Str_left, Str_right, Str_bogus}
TimeArgs == { <<>>, <<"9", "9", "9", "9">>, <<"1", "0", "0", "0", "0">>,
              <<"5", "z">>, <<"-", "1">> }

\* the key argp hands to the parser for a word that is no option
ARGP_KEY_ARG == "ARG"

Options ==
    [key : {"m"}, arg : MoveArgs] \cup [key : {"t"}, arg : TimeArgs]
    \cup [key : {"f", "p"}, arg : {<<>>}]
    \cup [key : {ARGP_KEY_ARG}, arg : {Str_up}]

\* the command lines of at most n words in which no option is given twice
RECURSIVE SeqsUpTo(_, _)
SeqsUpTo(S, n) ==
    IF n = 0 THEN {<<>>}
    ELSE LET shorter == SeqsUpTo(S, n - 1)
             New(s) == {x \in S : \A i \in 1..Len(s) : s[i].key # x.key}
         IN  shorter \cup UNION {{Append(s, x) : x \in New(s)} : s \in shorter}

CommandLines == SeqsUpTo(Options, MaxArgs)

-----------------------------------------------------------------------------
(* strtoul(arg, &endptr, 0) of the C library, as parse_opt calls it.       *)
(* The words of the model are at most five characters long, so the value   *)
(* of the digits never overflows.  A leading minus sign makes strtoul      *)
(* return the negated value as an unsigned long, 2^64 - val: the result    *)
(* carries that as the flag `wrapped`.                                     *)

DigitVal(c) ==
    CASE c = "0" -> 0 [] c = "1" -> 1 [] c = "2" -> 2 [] c = "3" -> 3
      [] c = "4" -> 4 [] c = "5" -> 5 [] c = "6" -> 6 [] c = "7" -> 7
      [] c = "8" -> 8 [] c = "9" -> 9 [] c = "a" -> 10 [] c = "b" -> 11
      [] c = "c" -> 12 [] c = "d" -> 13 [] c = "e" -> 14 [] c = "f" -> 15
      [] OTHER -> 99

IsDigit(s, i, base) == i <= Len(s) /\ DigitVal(s[i]) < base

RECURSIVE SkipSpace(_, _)
SkipSpace(s, i) == IF i <= Len(s) /\ s[i] = " " THEN SkipSpace(s, i + 1) ELSE i

RECURSIVE ScanDigits(_, _, _, _)
ScanDigits(s, i, base, acc) ==
    IF IsDigit(s, i, base)
    THEN ScanDigits(s, i + 1, base, acc * base + DigitVal(s[i]))
    ELSE [val |-> acc, end |-> i]

\* the value and the index endptr points at (Len(s) + 1 is the final NUL)
strtoul(s) ==
    LET i0 == SkipSpace(s, 1)
        neg == i0 <= Len(s) /\ s[i0] = "-"
        i1 == IF i0 <= Len(s) /\ s[i0] \in {"-", "+"} THEN i0 + 1 ELSE i0
        hex == /\ i1 + 1 <= Len(s) /\ s[i1] = "0" /\ s[i1 + 1] \in {"x", "X"}
               /\ IsDigit(s, i1 + 2, 16)
        base == IF hex THEN 16
                ELSE IF i1 <= Len(s) /\ s[i1] = "0" THEN 8 ELSE 10
        i2 == IF hex THEN i1 + 2 ELSE i1
        r == ScanDigits(s, i2, base, 0)
    IN  IF r.end = i2 THEN [val |-> 0, end |-> 1, wrapped |-> FALSE]
        ELSE [val |-> r.val, end |-> r.end, wrapped |-> neg /\ r.val # 0]

-----------------------------------------------------------------------------
(* parse_opt: the new struct arguments, and whether argp_usage was called  *)
(* (argp_usage prints the usage message and exits the process).            *)

parse_opt(key, arg, args) ==
    CASE key = "m" ->
           IF arg = Str_up
             THEN [arguments |-> [args EXCEPT !.movement = MOVEMENT_TILT_UP], usage |-> FALSE]
           ELSE IF arg = Str_down
             THEN [arguments |-> [args EXCEPT !.movement = MOVEMENT_TILT_DOWN], usage |-> FALSE]
           ELSE IF arg = Str_left
             THEN [arguments |-> [args EXCEPT !.movement = MOVEMENT_PAN_LEFT], usage |-> FALSE]
           ELSE IF arg = Str_right
             THEN [arguments |-> [args EXCEPT !.movement = MOVEMENT_PAN_RIGHT], usage |-> FALSE]
           ELSE [arguments |-> args, usage |-> TRUE]
      [] key = "f" -> [arguments |-> [args EXCEPT !.fire = TRUE], usage |-> FALSE]
      [] key = "t" ->
           LET r == strtoul(arg)
           IN  \* arg != '\0' compares the pointer with NULL: always true here
               \* a wrapped value is 2^64 - r.val, which is not below 10000
               IF r.end = Len(arg) + 1 /\ ~r.wrapped /\ r.val < 10000
               THEN [arguments |-> [args EXCEPT !.movement_duration = r.val * 1000],
                     usage |-> FALSE]
               ELSE [arguments |-> args, usage |-> TRUE]
      [] key = "p" -> [arguments |-> [args EXCEPT !.display_status = TRUE], usage |-> FALSE]
      [] OTHER -> [arguments |-> args, usage |-> TRUE]   \* ARGP_KEY_ARG: arg_num >= 0

-----------------------------------------------------------------------------
(* Helpers of the device-control code *)

\* the record of one call to hidapi or usleep: the function of the program
\* that made it, the bytes written or delivered, the microseconds asked
\* for, the call's return value and the time of the call
Entry(op, fn, buf, us, r) ==
    [op |-> op, fn |-> fn, buf |-> buf, us |-> us, r |-> r, t |-> clock]

\* send_command filling the two bytes of the report the wrong way round
Frame_swapped(cmd) == <<cmd, 0>>

\* send_command: the output report built from cmd
Frame(cmd) == <<0, cmd>>

\* send_command forgetting to report the failure of hid_write
send_command_ret_ignored(w) == 0

\* send_command: its return value, given hid_write's
send_command_ret(w) == IF w < 0 THEN -1 ELSE 0

\* get_status forgetting to report the failure of hid_read
get_status_ret_ignored(n) == 0

\* get_status taking a read of zero bytes for a failure
get_status_ret_strict(n) == IF n <= 0 THEN -1 ELSE 0

\* get_status: its return value, given hid_read's
get_status_ret(n) == IF n < 0 THEN -1 ELSE 0

\* move_turret's switch with the commands of up and down exchanged
MoveCmd_swapped(movement) ==
    CASE movement = MOVEMENT_TILT_UP -> CMD_MOVE_DOWN
      [] movement = MOVEMENT_TILT_DOWN -> CMD_MOVE_UP
      [] movement = MOVEMENT_PAN_LEFT -> CMD_MOVE_LEFT
      [] movement = MOVEMENT_PAN_RIGHT -> CMD_MOVE_RIGHT
      [] OTHER -> -1

\* move_turret's switch: the command byte, or -1 for the default branch
MoveCmd(movement) ==
    CASE movement = MOVEMENT_TILT_UP -> CMD_MOVE_UP
      [] movement = MOVEMENT_TILT_DOWN -> CMD_MOVE_DOWN
      [] movement = MOVEMENT_PAN_LEFT -> CMD_MOVE_LEFT
      [] movement = MOVEMENT_PAN_RIGHT -> CMD_MOVE_RIGHT
      [] OTHER -> -1

\* the do-while polling while the fired bit is set
LoopAgain_inverted(st, r) == BitAnd(st, STATUS_DEVICE_FIRED) # 0 /\ r = 0

\* the do-while without the test of ret
LoopAgain_noret(st, r) == BitAnd(st, STATUS_DEVICE_FIRED) = 0

\* fire_missile: the condition of its do-while
LoopAgain(st, r) == BitAnd(st, STATUS_DEVICE_FIRED) = 0 /\ r = 0

\* main firing, and printing the status, whatever the earlier result
FireRuns_always(args, r) == args.fire
StatusRuns_always(args, r) == args.display_status

\* main: the conditions under which it calls the three operations
MoveRuns(args) == args.movement # MOVEMENT_NONE
FireRuns(args, r) == args.fire /\ r = EXIT_SUCCESS
StatusRuns(args, r) == args.display_status /\ r = EXIT_SUCCESS

\* main not recording the failure of a call
MainRet_ignored(old, r) == old

\* main: ret after a call that returned r
MainRet(old, r) == IF r # 0 THEN EXIT_FAILURE ELSE old

\* print_status with the masks of the up and down limits exchanged
Decode_swapped(st) ==
    [up_limit    |-> BitAnd(st, STATUS_DOWN_LIMIT) # 0,
     down_limit  |-> BitAnd(st, STATUS_UP_LIMIT) # 0,
     left_limit  |-> BitAnd(st, STATUS_LEFT_LIMIT) # 0,
     right_limit |-> BitAnd(st, STATUS_RIGHT_LIMIT) # 0,
     fired       |-> BitAnd(st, STATUS_DEVICE_FIRED) # 0]

\* print_status: the five fields it prints
Decode(st) ==
    [up_limit    |-> BitAnd(st, STATUS_UP_LIMIT) # 0,
     down_limit  |-> BitAnd(st, STATUS_DOWN_LIMIT) # 0,
     left_limit  |-> BitAnd(st, STATUS_LEFT_LIMIT) # 0,
     right_limit |-> BitAnd(st, STATUS_RIGHT_LIMIT) # 0,
     fired       |-> BitAnd(st, STATUS_DEVICE_FIRED) # 0]

\* the function get_status was called from, and where it returns to
Caller == calls[Len(calls)]
GetStatusReturn == IF Caller = "fire_missile" THEN "fire_while" ELSE "print_status"

-----------------------------------------------------------------------------
(* The state at the start of main, after the defaults are set *)

DefaultArguments ==
    [movement |-> MOVEMENT_NONE, movement_duration |-> MOVE_HOLD_TIME_US,
     display_status |-> FALSE, fire |-> FALSE]

Init ==
    /\ argv \in CommandLines
    /\ argc = Len(argv)
    /\ arguments = DefaultArguments
    /\ pc = "argp_parse"
    /\ ret = EXIT_SUCCESS
    /\ device = "unopened"
    /\ fn_ret = 0
    /\ gs_ret = 0
    /\ status = 0
    /\ polls = 0
    /\ clock = 0
    /\ log = <<>>
    /\ calls = <<>>
    /\ rets = <<>>
    /\ printed = <<>>
    /\ exit_code = -1

-----------------------------------------------------------------------------
(* main: argument parsing and opening the device *)

\* argp_parse hands the next word to parse_opt
argp_parse ==
    /\ pc = "argp_parse"
    /\ argv # <<>>
    /\ LET r == parse_opt(Head(argv).key, Head(argv).arg, arguments)
       IN  IF r.usage
           THEN /\ pc' = "exited"
                /\ exit_code' = EX_USAGE
                /\ UNCHANGED <<argv, arguments>>
           ELSE /\ arguments' = r.arguments
                /\ argv' = Tail(argv)
                /\ UNCHANGED <<pc, exit_code>>
    /\ UNCHANGED <<argc, ret, device, fn_ret, gs_ret, status, polls, clock,
                   log, calls, rets, printed>>

hid_open ==
    /\ pc = "argp_parse"
    /\ argv = <<>>
    /\ \E d \in {"open", "NULL"} :
         /\ device' = d
         /\ log' = Append(log, Entry("hid_open", "main", <<>>, 0,
                                     IF d = "NULL" THEN -1 ELSE 0))
         /\ ret' = IF d = "NULL" THEN EXIT_FAILURE ELSE ret
         /\ pc' = IF d = "NULL" THEN "return" ELSE "main_move"
    /\ UNCHANGED <<argc, argv, arguments, fn_ret, gs_ret, status, polls,
                   clock, calls, rets, printed, exit_code>>

-----------------------------------------------------------------------------
(* move_turret *)

main_move ==
    /\ pc = "main_move"
    /\ IF MoveRuns(arguments)
       THEN /\ calls' = Append(calls, "move_turret")
            /\ fn_ret' = IF MoveCmd(arguments.movement) = -1 THEN -1 ELSE 0
            /\ pc' = IF MoveCmd(arguments.movement) = -1
                     THEN "move_return" ELSE "move_send"
       ELSE /\ pc' = "main_fire"
            /\ UNCHANGED <<calls, fn_ret>>
    /\ UNCHANGED <<argc, argv, arguments, ret, device, gs_ret, status, polls,
                   clock, log, rets, printed, exit_code>>

move_send ==
    /\ pc = "move_send"
    /\ \E w \in HidWriteResults :
         /\ log' = Append(log, Entry("hid_write", "move_turret",
                                     Frame(MoveCmd(arguments.movement)), 0, w))
         /\ fn_ret' = IF send_command_ret(w) # 0 THEN -1 ELSE fn_ret
         /\ pc' = IF send_command_ret(w) # 0 THEN "move_return" ELSE "move_usleep"
    /\ UNCHANGED <<argc, argv, arguments, ret, device, gs_ret, status, polls,
                   clock, calls, rets, printed, exit_code>>

move_usleep ==
    /\ pc = "move_usleep"
    /\ \E j \in Jitter :
         clock' = clock + arguments.movement_duration + j
    /\ log' = Append(log, Entry("usleep", "move_turret", <<>>,
                                arguments.movement_duration, 0))
    /\ pc' = "move_stop"
    /\ UNCHANGED <<argc, argv, arguments, ret, device, fn_ret, gs_ret, status,
                   polls, calls, rets, printed, exit_code>>

\* move_turret trying the Stop write a second time when the first failed
move_stop_retry ==
    /\ pc = "move_stop"
    /\ \E w \in HidWriteResults :
         LET first == log[Len(log)].op = "usleep"
         IN  /\ log' = Append(log, Entry("hid_write", "move_turret",
                                         Frame(CMD_STOP), 0, w))
             /\ fn_ret' = IF send_command_ret(w) # 0 /\ ~first THEN -1 ELSE fn_ret
             /\ pc' = IF send_command_ret(w) # 0 /\ first
                      THEN "move_stop" ELSE "move_return"
    /\ UNCHANGED <<argc, argv, arguments, ret, device, gs_ret, status, polls,
                   clock, calls, rets, printed, exit_code>>

move_stop ==
    /\ pc = "move_stop"
    /\ \E w \in HidWriteResults :
         /\ log' = Append(log, Entry("hid_write", "move_turret",
                                     Frame(CMD_STOP), 0, w))
         /\ fn_ret' = IF send_command_ret(w) # 0 THEN -1 ELSE fn_ret
    /\ pc' = "move_return"
    /\ UNCHANGED <<argc, argv, arguments, ret, device, gs_ret, status, polls,
                   clock, calls, rets, printed, exit_code>>

move_return ==
    /\ pc = "move_return"
    /\ rets' = Append(rets, fn_ret)
    /\ ret' = MainRet(ret, fn_ret)
    /\ pc' = "main_fire"
    /\ UNCHANGED <<argc, argv, arguments, device, fn_ret, gs_ret, status,
                   polls, clock, log, calls, printed, exit_code>>

-----------------------------------------------------------------------------
(* fire_missile *)

main_fire ==
    /\ pc = "main_fire"
    /\ IF FireRuns(arguments, ret)
       THEN /\ calls' = Append(calls, "fire_missile")
            /\ fn_ret' = 0
            /\ pc' = "fire_send"
       ELSE /\ pc' = "main_status"
            /\ UNCHANGED <<calls, fn_ret>>
    /\ UNCHANGED <<argc, argv, arguments, ret, device, gs_ret, status, polls,
                   clock, log, rets, printed, exit_code>>

\* send_command(CMD_FIRE); on success the else block is entered, where
\* status is declared and not initialised, and the do-while starts
fire_send ==
    /\ pc = "fire_send"
    /\ \E w \in HidWriteResults, u \in StatusBytes :
         /\ log' = Append(log, Entry("hid_write", "fire_missile",
                                     Frame(CMD_FIRE), 0, w))
         /\ IF send_command_ret(w) # 0
            THEN /\ fn_ret' = -1
                 /\ pc' = "fire_return"
                 /\ UNCHANGED <<status, polls>>
            ELSE /\ status' = u
                 /\ polls' = 1
                 /\ pc' = "get_status"
                 /\ UNCHANGED fn_ret
    /\ UNCHANGED <<argc, argv, arguments, ret, device, gs_ret, clock, calls,
                   rets, printed, exit_code>>

\* the end of one iteration of the do-while, and what follows the loop
fire_while ==
    /\ pc = "fire_while"
    /\ LET r == IF gs_ret # 0 THEN -1 ELSE fn_ret
       IN  /\ LoopAgain(status, r) => polls < MaxPolls
           /\ fn_ret' = r
           /\ polls' = IF LoopAgain(status, r) THEN polls + 1 ELSE polls
           /\ pc' = IF LoopAgain(status, r) THEN "get_status"
                    ELSE IF r = 0 THEN "fire_usleep" ELSE "fire_return"
    /\ UNCHANGED <<argc, argv, arguments, ret, device, gs_ret, status, clock,
                   log, calls, rets, printed, exit_code>>

\* fire_missile holding for the move time instead of the fire time
fire_usleep_short ==
    /\ pc = "fire_usleep"
    /\ \E j \in Jitter :
         clock' = clock + MOVE_HOLD_TIME_US + j
    /\ log' = Append(log, Entry("usleep", "fire_missile", <<>>,
                                MOVE_HOLD_TIME_US, 0))
    /\ pc' = "fire_stop"
    /\ UNCHANGED <<argc, argv, arguments, ret, device, fn_ret, gs_ret, status,
                   polls, calls, rets, printed, exit_code>>

fire_usleep ==
    /\ pc = "fire_usleep"
    /\ \E j \in Jitter :
         clock' = clock + FIRE_HOLD_TIME_US + j
    /\ log' = Append(log, Entry("usleep", "fire_missile", <<>>,
                                FIRE_HOLD_TIME_US, 0))
    /\ pc' = "fire_stop"
    /\ UNCHANGED <<argc, argv, arguments, ret, device, fn_ret, gs_ret, status,
                   polls, calls, rets, printed, exit_code>>

\* fire_missile not looking at the result of the Stop write
fire_stop_unchecked ==
    /\ pc = "fire_stop"
    /\ \E w \in HidWriteResults :
         log' = Append(log, Entry("hid_write", "fire_missile",
                                  Frame(CMD_STOP), 0, w))
    /\ pc' = "fire_return"
    /\ UNCHANGED <<argc, argv, arguments, ret, device, fn_ret, gs_ret, status,
                   polls, clock, calls, rets, printed, exit_code>>

fire_stop ==
    /\ pc = "fire_stop"
    /\ \E w \in HidWriteResults :
         /\ log' = Append(log, Entry("hid_write", "fire_missile",
                                     Frame(CMD_STOP), 0, w))
         /\ fn_ret' = IF send_command_ret(w) # 0 THEN -1 ELSE fn_ret
    /\ pc' = "fire_return"
    /\ UNCHANGED <<argc, argv, arguments, ret, device, gs_ret, status, polls,
                   clock, calls, rets, printed, exit_code>>

fire_return ==
    /\ pc = "fire_return"
    /\ rets' = Append(rets, fn_ret)
    /\ ret' = MainRet(ret, fn_ret)
    /\ pc' = "main_status"
    /\ UNCHANGED <<argc, argv, arguments, device, fn_ret, gs_ret, status,
                   polls, clock, log, calls, printed, exit_code>>

-----------------------------------------------------------------------------
(* get_status, called from fire_missile and from print_status *)

\* send_command(CMD_GET_STATUS)
get_status_send ==
    /\ pc = "get_status"
    /\ \E w \in HidWriteResults :
         /\ log' = Append(log, Entry("hid_write", Caller,
                                     Frame(CMD_GET_STATUS), 0, w))
         /\ gs_ret' = IF send_command_ret(w) # 0 THEN -1 ELSE 0
         /\ pc' = IF send_command_ret(w) # 0 THEN GetStatusReturn
                  ELSE "get_status_read"
    /\ UNCHANGED <<argc, argv, arguments, ret, device, fn_ret, status, polls,
                   clock, calls, rets, printed, exit_code>>

\* hid_read(device, status, 1): a delivered byte is stored in *status;
\* a failed read or a read of zero bytes leaves *status as it was
get_status_read ==
    /\ pc = "get_status_read"
    /\ \E n \in HidReadResults, b \in StatusBytes :
         /\ log' = Append(log, Entry("hid_read", Caller,
                                     IF n = 1 THEN <<b>> ELSE <<>>, 0, n))
         /\ status' = IF n = 1 THEN b ELSE status
         /\ gs_ret' = get_status_ret(n)
    /\ pc' = GetStatusReturn
    /\ UNCHANGED <<argc, argv, arguments, ret, device, fn_ret, polls, clock,
                   calls, rets, printed, exit_code>>

-----------------------------------------------------------------------------
(* print_status *)

\* status is declared and not initialised, then get_status is called
main_status ==
    /\ pc = "main_status"
    /\ IF StatusRuns(arguments, ret)
       THEN /\ calls' = Append(calls, "print_status")
            /\ fn_ret' = 0
            /\ status' \in StatusBytes
            /\ pc' = "get_status"
       ELSE /\ pc' = "hid_close"
            /\ UNCHANGED <<calls, fn_ret, status>>
    /\ UNCHANGED <<argc, argv, arguments, ret, device, gs_ret, polls, clock,
                   log, rets, printed, exit_code>>

\* print_status whose failure makes main return at once, without cleanup
print_status_early_return ==
    /\ pc = "print_status"
    /\ LET r == IF gs_ret # 0 THEN -1 ELSE fn_ret
       IN  /\ fn_ret' = r
           /\ printed' = IF r = 0 THEN Append(printed, Decode(status)) ELSE printed
           /\ rets' = Append(rets, r)
           /\ ret' = MainRet(ret, r)
           /\ pc' = IF r = 0 THEN "hid_close" ELSE "return"
    /\ UNCHANGED <<argc, argv, arguments, device, gs_ret, status, polls,
                   clock, log, calls, exit_code>>

\* after get_status: print the fields or fail, and return to main
print_status ==
    /\ pc = "print_status"
    /\ LET r == IF gs_ret # 0 THEN -1 ELSE fn_ret
       IN  /\ fn_ret' = r
           /\ printed' = IF r = 0 THEN Append(printed, Decode(status)) ELSE printed
           /\ rets' = Append(rets, r)
           /\ ret' = MainRet(ret, r)
    /\ pc' = "hid_close"
    /\ UNCHANGED <<argc, argv, arguments, device, gs_ret, status, polls,
                   clock, log, calls, exit_code>>

-----------------------------------------------------------------------------
(* main: cleanup and exit *)

hid_close ==
    /\ pc = "hid_close"
    /\ device' = "closed"
    /\ log' = Append(log, Entry("hid_close", "main", <<>>, 0, 0))
    /\ pc' = "return"
    /\ UNCHANGED <<argc, argv, arguments, ret, fn_ret, gs_ret, status, polls,
                   clock, calls, rets, printed, exit_code>>

main_return ==
    /\ pc = "return"
    /\ exit_code' = ret
    /\ pc' = "exited"
    /\ UNCHANGED <<argc, argv, arguments, ret, device, fn_ret, gs_ret, status,
                   polls, clock, log, calls, rets, printed>>

Next ==
    \/ argp_parse
    \/ hid_open
    \/ main_move
    \/ move_send
    \/ move_usleep
    \/ move_stop
    \/ move_return
    \/ main_fire
    \/ fire_send
    \/ fire_while
    \/ fire_usleep
    \/ fire_stop
    \/ fire_return
    \/ get_status_send
    \/ get_status_read
    \/ main_status
    \/ print_status
    \/ hid_close
    \/ main_return

Spec == Init /\ [][Next]_vars

-----------------------------------------------------------------------------
(* Reading the trace *)

IsIO(e) == e.op \in {"hid_write", "hid_read"}
IsWriteOf(e, cmd) == e.op = "hid_write" /\ e.buf = <<0, cmd>>
IsRead(e) == e.op = "hid_read"

\* the transport calls, and the transport calls and sleeps, made by fn
IOTrace(fn) == SelectSeq(log, LAMBDA e : e.fn = fn /\ IsIO(e))
Trace(fn) == SelectSeq(log, LAMBDA e : e.fn = fn /\ (IsIO(e) \/ e.op = "usleep"))

Called(fn) == \E i \in 1..Len(calls) : calls[i] = fn
CallIdx(fn) == CHOOSE i \in 1..Len(calls) : calls[i] = fn
Returned(fn) == Called(fn) /\ Len(rets) >= CallIdx(fn)
RetOf(fn) == rets[CallIdx(fn)]

\* the wire constant the interface documents for each direction
DirectionWire(m) ==
    CASE m = MOVEMENT_TILT_DOWN -> 1 [] m = MOVEMENT_TILT_UP -> 2
      [] m = MOVEMENT_PAN_LEFT -> 4 [] m = MOVEMENT_PAN_RIGHT -> 8

AllWritesOk(tr) == \A i \in 1..Len(tr) : tr[i].op = "hid_write" => tr[i].r >= 0

-----------------------------------------------------------------------------
(* C1: a move whose writes all succeed makes exactly two writes, the Move  *)
(* command of the requested direction and then Stop, makes no read,        *)
(* returns success, and at least the requested duration passes between the *)
(* two writes.                                                             *)
C1_MoveWritesMoveThenStop ==
    (Returned("move_turret") /\ AllWritesOk(IOTrace("move_turret"))) =>
        LET W == IOTrace("move_turret")
        IN  /\ Len(W) = 2
            /\ IsWriteOf(W[1], DirectionWire(arguments.movement))
            /\ IsWriteOf(W[2], 32)
            /\ RetOf("move_turret") = 0
            /\ W[2].t - W[1].t >= arguments.movement_duration

C1_Witness ==
    /\ Returned("move_turret")
    /\ AllWritesOk(IOTrace("move_turret"))
    /\ arguments.movement = MOVEMENT_TILT_UP
    /\ arguments.movement_duration = 9999000

(* C2: when the first write of a move fails, that write is the only call   *)
(* the move makes (no Stop, no sleep) and the move reports failure.        *)
C2_MoveFirstWriteFails ==
    LET T == Trace("move_turret")
    IN  (Len(T) >= 1 /\ T[1].r < 0) =>
            /\ Len(T) = 1
            /\ T[1].op = "hid_write"
            /\ Returned("move_turret") => RetOf("move_turret") = -1

C2_Witness ==
    /\ Returned("move_turret")
    /\ Len(Trace("move_turret")) = 1
    /\ Trace("move_turret")[1].r < 0

Fired(e) == BitAnd(e.buf[1], 16) # 0

AllDelivered(tr) ==
    \A i \in 1..Len(tr) : /\ tr[i].op = "hid_write" => tr[i].r >= 0
                          /\ tr[i].op = "hid_read" => tr[i].r = 1

(* C3: a fire whose calls all succeed and whose reads deliver fired=false  *)
(* n times and then fired=true makes one Fire write, then n+1 round trips  *)
(* of a GetStatus write and a read, then one Stop write, and returns       *)
(* success: the loop neither stops before the first fired=true read nor    *)
(* polls after it.                                                         *)
C3_FireRoundTrips ==
    LET W == IOTrace("fire_missile")
        k == (Len(W) - 2) \div 2
    IN  /\ (Returned("fire_missile") /\ AllDelivered(W)) =>
              /\ Len(W) >= 4 /\ Len(W) = 2 * k + 2
              /\ IsWriteOf(W[1], 16)
              /\ \A j \in 1..k : /\ IsWriteOf(W[2 * j], 64)
                                 /\ IsRead(W[2 * j + 1])
                                 /\ Fired(W[2 * j + 1]) <=> j = k
              /\ IsWriteOf(W[Len(W)], 32)
              /\ RetOf("fire_missile") = 0
        /\ AllDelivered(W) =>
              \A i \in 1..Len(W) : (IsRead(W[i]) /\ Fired(W[i])) =>
                  \A j \in (i + 1)..Len(W) : ~IsRead(W[j]) /\ ~IsWriteOf(W[j], 64)

\* the case of the example: three polls report fired=false, the fourth true
C3_Witness ==
    LET W == IOTrace("fire_missile")
    IN  /\ Returned("fire_missile") /\ AllDelivered(W)
        /\ Len(W) = 2 * MaxPolls + 2
        /\ ~Fired(W[3]) /\ Fired(W[2 * MaxPolls + 1])

PollFailed(e) ==
    e.fn = "fire_missile" /\ (IsWriteOf(e, 64) \/ IsRead(e)) /\ e.r < 0

(* C4: when a GetStatus write or a status read of the polling loop fails,  *)
(* it is the last transport call and sleep of the invocation (no Stop, no  *)
(* further poll) and fire reports failure, whatever the status buffer      *)
(* holds.                                                                  *)
C4_FirePollFailure ==
    LET T == SelectSeq(log, LAMBDA e : IsIO(e) \/ e.op = "usleep")
    IN  \A i \in 1..Len(T) : PollFailed(T[i]) =>
            /\ i = Len(T)
            /\ Returned("fire_missile") => RetOf("fire_missile") = -1

\* the failing read found the buffer holding a byte with the fired bit set
C4_Witness ==
    LET T == Trace("fire_missile")
    IN  /\ Returned("fire_missile")
        /\ IsRead(T[Len(T)]) /\ T[Len(T)].r < 0
        /\ BitAnd(status, STATUS_DEVICE_FIRED) # 0

(* C5: an invocation with no flags runs fire exactly once after the       *)
(* device is opened, as an invocation with only --fire does.               *)
C5_NoFlagsFires ==
    (argc = 0 /\ pc = "exited" /\ device = "closed") =>
        /\ calls = <<"fire_missile">>
        /\ Len(IOTrace("fire_missile")) >= 1
        /\ IsWriteOf(IOTrace("fire_missile")[1], 16)

\* what the code does with no flags: it opens and closes the device and
\* calls nothing in between
C5_NoFlagsDoesNothing ==
    (argc = 0 /\ pc = "exited" /\ device = "closed") =>
        /\ calls = <<>>
        /\ \A i \in 1..Len(log) : ~IsIO(log[i])

IsMoveOrFire(e) == e.op = "hid_write" /\ e.buf[2] \in {1, 2, 4, 8, 16}

(* C6: a Move or Fire command is never written while an earlier Move or    *)
(* Fire command of the invocation has not been followed by a successful    *)
(* Stop write.                                                             *)
C6_OneActiveCommand ==
    \A j \in 1..Len(log) : IsMoveOrFire(log[j]) =>
        \A i \in 1..(j - 1) : IsMoveOrFire(log[i]) =>
            \E k \in (i + 1)..(j - 1) : IsWriteOf(log[k], 32) /\ log[k].r >= 0

C6_Witness ==
    \E i, j \in 1..Len(log) :
        /\ i < j
        /\ IsWriteOf(log[i], 8) /\ IsWriteOf(log[j], 16)

(* C7: fire returns success only if the Fire write, every GetStatus write, *)
(* every status read and the final Stop write succeeded; when the Fire     *)
(* write fails, fire makes no other call.                                  *)
C7_FireSuccessOnlyIf ==
    LET W == IOTrace("fire_missile")
    IN  /\ (Returned("fire_missile") /\ RetOf("fire_missile") = 0) =>
              /\ Len(W) >= 4
              /\ IsWriteOf(W[1], 16)
              /\ IsWriteOf(W[Len(W)], 32)
              /\ \A i \in 1..Len(W) : W[i].r >= 0
              /\ \A i \in 2..(Len(W) - 1) : IsWriteOf(W[i], 64) \/ IsRead(W[i])
        /\ (Len(W) >= 1 /\ W[1].r < 0) =>
              /\ Len(Trace("fire_missile")) = 1
              /\ Returned("fire_missile") => RetOf("fire_missile") = -1

C7_Witness ==
    /\ Returned("fire_missile")
    /\ RetOf("fire_missile") = 0
    /\ Len(IOTrace("fire_missile")) = 6

(* C8: a status query writes one GetStatus command and, only if that write *)
(* succeeded, makes one read; it writes no other command and does not      *)
(* sleep; it fails if the write or the read fails and succeeds otherwise.  *)
C8_StatusQuery ==
    LET W == Trace("print_status")
    IN  /\ Len(W) <= 2
        /\ Len(W) >= 1 => IsWriteOf(W[1], 64)
        /\ Len(W) = 2 => IsRead(W[2]) /\ W[1].r >= 0
        /\ Returned("print_status") =>
              /\ Len(W) >= 1
              /\ W[1].r >= 0 => Len(W) = 2
              /\ RetOf("print_status") \in {0, -1}
              /\ RetOf("print_status") = -1 <=> \E i \in 1..Len(W) : W[i].r < 0

C8_Witness ==
    /\ Returned("print_status")
    /\ RetOf("print_status") = 0
    /\ Len(Trace("print_status")) = 2
    /\ Called("fire_missile")

Rank(fn) ==
    CASE fn = "move_turret" -> 1 [] fn = "fire_missile" -> 2 [] fn = "print_status" -> 3

SomeActionFailed == \E i \in 1..Len(rets) : rets[i] # 0
IOCount == Len(SelectSeq(log, IsIO))

C9_Order ==
    /\ \A i, j \in 1..Len(calls) : i < j => Rank(calls[i]) < Rank(calls[j])
    /\ Called("move_turret") => arguments.movement # MOVEMENT_NONE
    /\ Called("fire_missile") =>
          /\ arguments.fire
          /\ arguments.movement # MOVEMENT_NONE =>
                Returned("move_turret") /\ RetOf("move_turret") = 0
    /\ Called("print_status") =>
          /\ arguments.display_status
          /\ arguments.movement # MOVEMENT_NONE =>
                Returned("move_turret") /\ RetOf("move_turret") = 0
          /\ arguments.fire =>
                Returned("fire_missile") /\ RetOf("fire_missile") = 0
    /\ SomeActionFailed => Len(calls) = Len(rets)

(* C9: the actions run in the order move, fire, status; fire runs only if  *)
(* requested and the requested move succeeded; status runs only if         *)
(* requested and every earlier requested action succeeded; once an action  *)
(* has failed, no write or read is issued.                                 *)
C9_FixedOrderStopAtFailure ==
    [][/\ C9_Order /\ C9_Order'
       /\ SomeActionFailed => IOCount' = IOCount]_vars

C9_Witness ==
    /\ pc = "exited"
    /\ arguments.movement # MOVEMENT_NONE /\ arguments.fire /\ arguments.display_status
    /\ calls = <<"move_turret", "fire_missile">>
    /\ rets = <<0, -1>>

OpenedAt(i) == log[i].op = "hid_open" /\ log[i].r = 0
ClosedAt(i) == log[i].op = "hid_close"

(* C10: the device is opened at most once; when the open succeeded it is   *)
(* closed exactly once by the time main returns, whether the actions       *)
(* succeeded or one failed; every write and read lies after the successful *)
(* open and before the close.                                              *)
C10_OpenOnceCloseOnce ==
    /\ \A i \in 1..Len(log) : log[i].op = "hid_open" =>
          \A j \in 1..(i - 1) : log[j].op # "hid_open"
    /\ \A i \in 1..Len(log) : ClosedAt(i) => \A j \in 1..(i - 1) : ~ClosedAt(j)
    /\ \A i \in 1..Len(log) : ClosedAt(i) => \E o \in 1..(i - 1) : OpenedAt(o)
    /\ (pc = "exited" /\ \E o \in 1..Len(log) : OpenedAt(o)) =>
          \E c \in 1..Len(log) : ClosedAt(c)
    /\ \A i \in 1..Len(log) : IsIO(log[i]) =>
          /\ \E o \in 1..(i - 1) : OpenedAt(o)
          /\ \A c \in 1..(i - 1) : ~ClosedAt(c)

\* the path on which the last action, the status query, fails
C10_Witness ==
    /\ pc = "exited"
    /\ Returned("print_status") /\ RetOf("print_status") = -1
    /\ \E c \in 1..Len(log) : ClosedAt(c)

AllRequestedSucceeded ==
    /\ arguments.movement # MOVEMENT_NONE =>
          Returned("move_turret") /\ RetOf("move_turret") = 0
    /\ arguments.fire => Returned("fire_missile") /\ RetOf("fire_missile") = 0
    /\ arguments.display_status =>
          Returned("print_status") /\ RetOf("print_status") = 0

(* C11: the exit code is 0 exactly when the device was opened and every    *)
(* requested action succeeded; it is non-zero when the device is not found *)
(* and when a write or a read fails.                                       *)
C11_ExitCode ==
    pc = "exited" =>
        /\ exit_code = 0 <=>
              (\E o \in 1..Len(log) : OpenedAt(o)) /\ AllRequestedSucceeded
        /\ (\E i \in 1..Len(log) : log[i].op = "hid_open" /\ log[i].r < 0) =>
              exit_code # 0
        /\ (\E i \in 1..Len(log) : IsIO(log[i]) /\ log[i].r < 0) => exit_code # 0

C11_Witness ==
    /\ pc = "exited"
    /\ exit_code = 0
    /\ calls = <<"move_turret", "fire_missile", "print_status">>

StopAttempts(fn) == SelectSeq(log, LAMBDA e : e.fn = fn /\ IsWriteOf(e, 32))
StopFailed(fn) == \E i \in 1..Len(log) :
                      log[i].fn = fn /\ IsWriteOf(log[i], 32) /\ log[i].r < 0

(* C12: no failed write or read is retried: a failed call is the last      *)
(* write or read of the invocation.  When the Stop write of a move or of a *)
(* fire fails, it is the only Stop attempt of that action, the action      *)
(* reports failure, and no successful Stop write follows the Move or Fire  *)
(* command.                                                                *)
C12_NoRetry ==
    /\ \A i \in 1..Len(log) : (IsIO(log[i]) /\ log[i].r < 0) =>
          \A j \in (i + 1)..Len(log) : ~IsIO(log[j])
    /\ \A fn \in {"move_turret", "fire_missile"} : StopFailed(fn) =>
          /\ Len(StopAttempts(fn)) = 1
          /\ Returned(fn) => RetOf(fn) = -1
          /\ \A i \in 1..Len(log) :
                ~(log[i].fn = fn /\ IsWriteOf(log[i], 32) /\ log[i].r >= 0)
          /\ pc = "exited" => exit_code = EXIT_FAILURE

C12_Witness ==
    /\ pc = "exited"
    /\ StopFailed("move_turret")
    /\ arguments.fire /\ arguments.display_status

LastIO(fn) == LET W == IOTrace(fn) IN W[Len(W)]

(* C13: every write is a frame of two bytes, byte 0 being 0 and byte 1 one *)
(* of the seven command values; the first frame of a move carries the wire *)
(* constant of the requested direction (Down=0x01, Up=0x02, Left=0x04,     *)
(* Right=0x08) and the frame that ends a move or a fire carries Stop=0x20. *)
C13_Frames ==
    /\ \A i \in 1..Len(log) : log[i].op = "hid_write" =>
          /\ Len(log[i].buf) = 2
          /\ log[i].buf[1] = 0
          /\ log[i].buf[2] \in {1, 2, 4, 8, 16, 32, 64}
    /\ Called("move_turret") =>
          LET W == IOTrace("move_turret")
          IN  Len(W) >= 1 =>
                  /\ W[1].op = "hid_write"
                  /\ W[1].buf[2] = DirectionWire(arguments.movement)
    /\ \A fn \in {"move_turret", "fire_missile"} :
          (Returned(fn) /\ RetOf(fn) = 0) =>
              LET e == LastIO(fn)
              IN  e.op = "hid_write" /\ e.buf = <<0, 32>>

C13_Witness ==
    /\ pc = "exited" /\ exit_code = 0
    /\ \A c \in {4, 16, 32, 64} :
          \E i \in 1..Len(log) : log[i].op = "hid_write" /\ log[i].buf = <<0, c>>

-----------------------------------------------------------------------------
(* The interpretation of the status byte, for every value of a uint8_t.    *)
(* The initial states are those in which get_status has just returned 0 to *)
(* print_status, or to the first iteration of fire_missile's loop, after a *)
(* read that delivered one byte; the steps are the program's own.          *)

InitDecode ==
    /\ argv = <<>>
    /\ argc = 1
    /\ calls \in {<<"print_status">>, <<"fire_missile">>}
    /\ arguments = [DefaultArguments EXCEPT
                      !.fire = (calls = <<"fire_missile">>),
                      !.display_status = (calls = <<"print_status">>)]
    /\ pc = GetStatusReturn
    /\ ret = EXIT_SUCCESS
    /\ device = "open"
    /\ fn_ret = 0
    /\ gs_ret = 0
    /\ status \in 0..255
    /\ polls = IF calls = <<"fire_missile">> THEN 1 ELSE 0
    /\ clock = 0
    /\ log = <<Entry("hid_open", "main", <<>>, 0, 0)>>
             \o (IF calls = <<"fire_missile">>
                 THEN <<Entry("hid_write", "fire_missile", Frame(CMD_FIRE), 0, 2)>>
                 ELSE <<>>)
             \o <<Entry("hid_write", Caller, Frame(CMD_GET_STATUS), 0, 2),
                  Entry("hid_read", Caller, <<status>>, 0, 1)>>
    /\ rets = <<>>
    /\ printed = <<>>
    /\ exit_code = -1

NextDecode ==
    \/ print_status
    \/ fire_while

SpecDecode == InitDecode /\ [][NextDecode]_vars

\* bit test by division, for a mask that is a power of two
Bit(b, mask) == (b \div mask) % 2 = 1

DeliveredByte == log[Len(log)].buf[1]

(* C14: for each of the 256 status bytes, each printed flag is             *)
(* (byte & mask) != 0 with the masks DownLimit=0x01, UpLimit=0x02,         *)
(* LeftLimit=0x04, RightLimit=0x08, Fired=0x10, independently of the other *)
(* bits, and the loop of fire goes on exactly when the Fired bit is clear. *)
C14_Decode ==
    /\ printed # <<>> =>
          printed[1] = [down_limit  |-> Bit(DeliveredByte, 1),
                        up_limit    |-> Bit(DeliveredByte, 2),
                        left_limit  |-> Bit(DeliveredByte, 4),
                        right_limit |-> Bit(DeliveredByte, 8),
                        fired       |-> Bit(DeliveredByte, 16)]
    /\ (printed # <<>> /\ DeliveredByte = 5) =>
          printed[1] = [down_limit |-> TRUE, left_limit |-> TRUE,
                        up_limit |-> FALSE, right_limit |-> FALSE,
                        fired |-> FALSE]
    /\ (calls = <<"fire_missile">> /\ pc # "fire_while") =>
          /\ pc \in {"get_status", "fire_usleep"}
          /\ pc = "fire_usleep" <=> Bit(DeliveredByte, 16)

C14_Witness ==
    /\ printed # <<>>
    /\ DeliveredByte = 5
    /\ printed[1].down_limit /\ printed[1].left_limit /\ ~printed[1].fired

-----------------------------------------------------------------------------
\* a word that is a decimal number, and its value
Numeric(s) == Len(s) >= 1 /\ \A i \in 1..Len(s) : DigitVal(s[i]) < 10

RECURSIVE DecimalValue(_)
DecimalValue(s) ==
    IF s = <<>> THEN 0
    ELSE 10 * DecimalValue(SubSeq(s, 1, Len(s) - 1)) + DigitVal(s[Len(s)])

\* the step of the parser on the next word, `accepted` being the --time
\* words that are to be taken as a number of milliseconds
TimeStep(accepted) ==
    (pc = "argp_parse" /\ argv # <<>>) =>
        LET w == Head(argv)
        IN  IF w.key # "t"
            THEN pc' = "argp_parse" =>
                     arguments'.movement_duration = arguments.movement_duration
            ELSE IF w.arg \in accepted /\ DecimalValue(w.arg) <= 9999
            THEN /\ pc' = "argp_parse"
                 /\ arguments'.movement_duration = DecimalValue(w.arg) * 1000
                 /\ arguments'.movement_duration < 10000000
            ELSE /\ pc' = "exited"
                 /\ exit_code' # 0
                 /\ device' = "unopened"
                 /\ log' = <<>>

(* C15: the duration handed to move is 100000 microseconds when --time is  *)
(* absent and otherwise ms*1000 for the given ms in 0..9999, hence below   *)
(* 10,000,000; a --time value of 10000 or more, or a non-numeric one, is   *)
(* rejected before the device is opened, so that no write or read occurs.  *)
C15_DurationBounded ==
    /\ arguments.movement_duration = 100000
    /\ [][TimeStep({s \in TimeArgs : Numeric(s)})]_vars

\* what the code does: the same, except that it takes the empty word for 0
NumericOrEmpty(s) == \A i \in 1..Len(s) : DigitVal(s[i]) < 10

C15_EmptyWordAccepted ==
    /\ arguments.movement_duration = 100000
    /\ [][TimeStep({s \in TimeArgs : NumericOrEmpty(s)})]_vars

-----------------------------------------------------------------------------
(* C16: each iteration of the loop of fire decides on the status byte that *)
(* its own read delivered: when get_status has returned success, the       *)
(* buffer tested by the loop condition holds the byte of the read just     *)
(* made, also when that read returned zero bytes.                          *)
C16_DecisionOnOwnRead ==
    (pc = "fire_while" /\ gs_ret = 0) =>
        LET e == log[Len(log)]
        IN  /\ IsRead(e) /\ e.fn = "fire_missile"
            /\ e.r = 1
            /\ e.buf = <<status>>

\* what the code does: the decision is taken on the byte of the iteration's
\* own read whenever that read delivered a byte
C16_OwnReadWhenDelivered ==
    (pc = "fire_while" /\ gs_ret = 0) =>
        LET e == log[Len(log)]
        IN  /\ IsRead(e) /\ e.fn = "fire_missile"
            /\ e.r = 1 => e.buf = <<status>>

FiredDelivered(e) == IsRead(e) /\ e.r = 1 /\ Fired(e)

(* C17: once the Fire write has succeeded, fire leaves its loop only after *)
(* a GetStatus write or a read failed or a read delivered a byte with the  *)
(* fired bit set; while every poll succeeds with fired=false there is no   *)
(* cap: fire stays in the loop.                                            *)
C17_LoopEndsOnlyOnFailureOrFired ==
    LET W == IOTrace("fire_missile")
    IN  (Len(W) >= 1 /\ W[1].r >= 0
           /\ pc \in {"fire_usleep", "fire_stop", "fire_return", "main_status",
                      "hid_close", "return", "exited"}) =>
            \E i \in 1..Len(W) : PollFailed(W[i]) \/ FiredDelivered(W[i])

(* C18: after the first poll of fire that reports fired=true no further    *)
(* GetStatus write or read is made; fire sleeps the overshoot interval of  *)
(* 500000 microseconds and only then writes Stop, at least that interval   *)
(* after the read, and that Stop is the last call of fire.                 *)
C18_OvershootThenStop ==
    LET T == Trace("fire_missile")
    IN  \A i \in 1..Len(T) : FiredDelivered(T[i]) =>
            /\ Len(T) <= i + 2
            /\ Len(T) >= i + 1 => T[i + 1].op = "usleep" /\ T[i + 1].us = 500000
            /\ Len(T) = i + 2 =>
                  /\ IsWriteOf(T[i + 2], 32)
                  /\ T[i + 2].t - T[i].t >= 500000
            /\ Returned("fire_missile") => Len(T) = i + 2

C18_Witness ==
    LET T == Trace("fire_missile")
    IN  /\ Returned("fire_missile")
        /\ Len(T) = 7
        /\ FiredDelivered(T[5])
        /\ IsWriteOf(T[7], 32)

(* C19: every read is immediately preceded by a successful GetStatus write *)
(* of the same function, with no other call in between; a GetStatus write  *)
(* is made only by the status query or inside the polling loop of fire,    *)
(* that is after fire's successful Fire write and before its sleep and     *)
(* Stop.                                                                   *)
C19_ReadFollowsGetStatus ==
    /\ \A i \in 1..Len(log) : IsRead(log[i]) =>
          /\ i >= 2
          /\ IsWriteOf(log[i - 1], 64)
          /\ log[i - 1].r >= 0
          /\ log[i - 1].fn = log[i].fn
    /\ \A i \in 1..Len(log) : IsWriteOf(log[i], 64) =>
          /\ log[i].fn \in {"fire_missile", "print_status"}
          /\ log[i].fn = "fire_missile" =>
                /\ \E j \in 1..(i - 1) :
                      /\ log[j].fn = "fire_missile"
                      /\ IsWriteOf(log[j], 16) /\ log[j].r >= 0
                /\ \A j \in 1..(i - 1) : log[j].fn = "fire_missile" =>
                      log[j].op # "usleep" /\ ~IsWriteOf(log[j], 32)

C19_Witness ==
    /\ \E i \in 1..Len(log) : IsRead(log[i]) /\ log[i].fn = "fire_missile"
    /\ \E i \in 1..Len(log) : IsRead(log[i]) /\ log[i].fn = "print_status"

StopOkAt(i) == IsWriteOf(log[i], 32) /\ log[i].r >= 0

(* C20: when the invocation ends with exit code 0, every Move or Fire      *)
(* command that was written is followed by a successful Stop write, and    *)
(* the only writes after the last Stop are GetStatus writes.               *)
C20_ExitZeroLeavesStopped ==
    (pc = "exited" /\ exit_code = 0) =>
        /\ \A i \in 1..Len(log) : IsMoveOrFire(log[i]) =>
              \E k \in (i + 1)..Len(log) : StopOkAt(k)
        /\ \A j \in 1..Len(log) :
              (log[j].op = "hid_write" /\ \A k \in j..Len(log) : ~StopOkAt(k)) =>
                  IsWriteOf(log[j], 64)

C20_Witness ==
    /\ pc = "exited" /\ exit_code = 0
    /\ \E i \in 1..Len(log) : IsWriteOf(log[i], 2)
    /\ \E i \in 1..Len(log) : IsWriteOf(log[i], 16)
    /\ IsRead(log[Len(log) - 1]) /\ log[Len(log) - 1].fn = "print_status"

====
